---- MODULE Spec2Model ----
(***************************************************************************)
(* Model of Update.py: the updater for npm and a fixed list of global      *)
(* CLIs.  Text (versions, command output) is a sequence of one-character   *)
(* strings, so that strip, partition, split, int and string comparison     *)
(* are computed as Python computes them.                                   *)
(***************************************************************************)
EXTENDS Integers, Sequences, FiniteSets, TLC

(***************************************************************************)
(* Bounds of the model.                                                    *)
(***************************************************************************)
\* longest pre-release tag drawn for the version comparator
MaxTagLen == 2
\* largest number of dot-separated components drawn for a version core
MaxParts == 3
\* largest number of entries of a global listing's "dependencies" object
MaxDeps == 2

(***************************************************************************)
(* Python text primitives.                                                 *)
(***************************************************************************)
\* Python's None where a text is expected (no text equals it)
None == << "None" >>

\* Python's None where a package name is expected
NoneName == "<None>"

\* the characters the model uses, in code-point order
CharOrder ==
    << " ", "\"", "-", ".", "0", "1", "2", "3", "4", "5", "6", "7", "8", "9",
       "N", "a", "b", "e", "l", "n", "o", "u", "x", "z", "{", "}", "~" >>

\* ord(c), up to an order-preserving renumbering
Ord(c) == CHOOSE i \in 1..Len(CharOrder) : CharOrder[i] = c

Digits == <<"0", "1", "2", "3", "4", "5", "6", "7", "8", "9">>

IsDigit(c) == \E i \in 1..10 : Digits[i] = c

DigitVal(c) == (CHOOSE i \in 1..10 : Digits[i] = c) - 1

\* str < str: code-point lexicographic order, a proper prefix is smaller
RECURSIVE StrLess(_, _)
StrLess(a, b) ==
    IF b = <<>> THEN FALSE
    ELSE IF a = <<>> THEN TRUE
    ELSE IF Head(a) # Head(b) THEN Ord(Head(a)) < Ord(Head(b))
    ELSE StrLess(Tail(a), Tail(b))

\* str.strip() for the whitespace the model has (the space)
RECURSIVE LStrip(_)
LStrip(s) == IF s # <<>> /\ Head(s) = " " THEN LStrip(Tail(s)) ELSE s

RECURSIVE RStrip(_)
RStrip(s) ==
    IF s # <<>> /\ s[Len(s)] = " " THEN RStrip(SubSeq(s, 1, Len(s) - 1)) ELSE s

Strip(s) == RStrip(LStrip(s))

\* str.strip('"')
RECURSIVE LStripQ(_)
LStripQ(s) == IF s # <<>> /\ Head(s) = "\"" THEN LStripQ(Tail(s)) ELSE s

RECURSIVE RStripQ(_)
RStripQ(s) ==
    IF s # <<>> /\ s[Len(s)] = "\"" THEN RStripQ(SubSeq(s, 1, Len(s) - 1)) ELSE s

StripQuotes(s) == RStripQ(LStripQ(s))

\* index of the first occurrence of c in s, 0 when there is none
FirstIndex(s, c) ==
    IF \E i \in 1..Len(s) : s[i] = c
    THEN CHOOSE i \in 1..Len(s) : s[i] = c /\ \A j \in 1..(i - 1) : s[j] # c
    ELSE 0

\* s.partition(c): <<before, after>>; no separator gives <<s, "">>
Partition(s, c) ==
    LET i == FirstIndex(s, c)
    IN  IF i = 0 THEN << s, <<>> >>
        ELSE << SubSeq(s, 1, i - 1), SubSeq(s, i + 1, Len(s)) >>

\* s.split(c): always at least one part
RECURSIVE Split(_, _)
Split(s, c) ==
    LET i == FirstIndex(s, c)
    IN  IF i = 0 THEN << s >>
        ELSE << SubSeq(s, 1, i - 1) >> \o Split(SubSeq(s, i + 1, Len(s)), c)

\* whether int(s) succeeds: surrounding whitespace is ignored, then one or
\* more digits (the model's alphabet has no sign and no underscore)
IntOk(s) ==
    LET t == Strip(s)
    IN  t # <<>> /\ \A i \in 1..Len(t) : IsDigit(t[i])

RECURSIVE DigitsVal(_)
DigitsVal(t) ==
    IF t = <<>> THEN 0
    ELSE 10 * DigitsVal(SubSeq(t, 1, Len(t) - 1)) + DigitVal(t[Len(t)])

\* int(s) where IntOk(s)
IntOf(s) == DigitsVal(Strip(s))

(***************************************************************************)
(* Version logic.                                                          *)
(***************************************************************************)
\* the pre-release slot of a version without pre-release segment
ReleaseSentinel == << "~" >>

\* the pre-release slot of a version whose core does not parse
MalformedSentinel == << "z" >>

\* parse_semver with the low sentinel "" for a release (a plausible slip)
parse_semver_low(v) ==
    LET cp    == Partition(IF v = None THEN <<>> ELSE v, "-")
        parts == Split(cp[1], ".")
        used  == 1..(IF Len(parts) < 3 THEN Len(parts) ELSE 3)
        num(i) == IF Len(parts) >= i THEN IntOf(parts[i]) ELSE 0
    IN  IF \E i \in used : ~IntOk(parts[i])
        THEN << 0, 0, 0, MalformedSentinel >>
        ELSE << num(1), num(2), num(3), cp[2] >>

\* parse_semver that zeroes only the component that fails to parse
parse_semver_each(v) ==
    LET cp    == Partition(IF v = None THEN <<>> ELSE v, "-")
        parts == Split(cp[1], ".")
        num(i) == IF Len(parts) >= i /\ IntOk(parts[i]) THEN IntOf(parts[i]) ELSE 0
    IN  << num(1), num(2), num(3), IF cp[2] = <<>> THEN ReleaseSentinel ELSE cp[2] >>

\* parse_semver(v): (major, minor, patch, pre)
parse_semver(v) ==
    LET cp    == Partition(IF v = None THEN <<>> ELSE v, "-")
        parts == Split(cp[1], ".")
        used  == 1..(IF Len(parts) < 3 THEN Len(parts) ELSE 3)
        num(i) == IF Len(parts) >= i THEN IntOf(parts[i]) ELSE 0
    IN  IF \E i \in used : ~IntOk(parts[i])
        THEN << 0, 0, 0, MalformedSentinel >>
        ELSE << num(1), num(2), num(3),
                IF cp[2] = <<>> THEN ReleaseSentinel ELSE cp[2] >>

\* tuple < tuple on (int, int, int, str)
TupleLess(a, b) ==
    \/ a[1] < b[1]
    \/ a[1] = b[1] /\ a[2] < b[2]
    \/ a[1] = b[1] /\ a[2] = b[2] /\ a[3] < b[3]
    \/ a[1] = b[1] /\ a[2] = b[2] /\ a[3] = b[3] /\ StrLess(a[4], b[4])

\* is_outdated with <= in place of < (a plausible slip)
is_outdated_le(local, latest) ==
    IF latest = None THEN FALSE
    ELSE IF local = None THEN TRUE
    ELSE ~TupleLess(parse_semver(latest), parse_semver(local))

\* is_outdated(local, latest)
is_outdated(local, latest) ==
    IF latest = None THEN FALSE
    ELSE IF local = None THEN TRUE
    ELSE TupleLess(parse_semver(local), parse_semver(latest))

(***************************************************************************)
(* Settings.                                                               *)
(***************************************************************************)
AUTO_UPDATE_NPM == TRUE

\* with it unset maybe_confirm() returns at once: no prompt stands between the
\* decision to install and the install command
CONFIRM_BEFORE_UPDATE == FALSE

PAUSE_AT_END == TRUE

PACKAGES ==
    << [display |-> "Gemini CLI",
        candidates |-> << "@google/gemini-cli", "gemini-cli" >>],
       [display |-> "OpenAI Codex CLI",
        candidates |-> << "@openai/codex", "openai" >>] >>

\* exit status of ensure_npm when npm is missing
ExitNpmMissing == 2

\* exit status after KeyboardInterrupt
ExitInterrupted == 130

\* return code run() reports for FileNotFoundError
RcCommandNotFound == 127

(***************************************************************************)
(* Texts the environment can produce.                                      *)
(***************************************************************************)
V100 == << "1", ".", "0", ".", "0" >>

V101 == << "1", ".", "0", ".", "1" >>

ErrText == << "e", "x" >>

\* what a child process can write as the answer of `npm view <pkg> version --json`
ViewStdouts ==
    { <<>>,
      << "\"", "1", ".", "0", ".", "0", "\"" >>,
      << "\"", "1", ".", "0", ".", "1", "\"", " " >>,
      << "\"", " ", "1", ".", "0", ".", "1", "\"" >>,
      << "1", ".", "0", ".", "1", " " >>,
      << "1", ".", "1", "0" >>,
      << "\"", "\"" >>,
      << "n", "u", "l", "l" >>,
      << "{", "}" >>,
      << "b", "a", "d", " ", "x" >> }

\* what `npm -v` can write
VersionStdouts == { <<>>, V100 \o << " " >>, V101 }

(***************************************************************************)
(* Process runner.                                                         *)
(***************************************************************************)
\* a child process outcome: started or not, and what it returned and wrote
Outcomes(stdouts) ==
    [started : {TRUE}, rc : {0, 1}, stdout : stdouts, stderr : {<<>>, ErrText \o << " " >>}]
    \cup [started : {FALSE}, rc : {0}, stdout : {<<>>}, stderr : {<<>>}]

\* run(cmd) -> (rc, out, err) for a command whose output is text
run(o) ==
    IF o.started
    THEN [rc |-> o.rc, out |-> Strip(o.stdout), err |-> Strip(o.stderr)]
    ELSE [rc |-> RcCommandNotFound, out |-> <<>>, err |-> ErrText]

(***************************************************************************)
(* json.loads on the answer of `npm view`: the JSON texts among             *)
(* ViewStdouts are a string without escapes, an unsigned integer or        *)
(* decimal, null and {}; every other text raises JSONDecodeError.          *)
(***************************************************************************)
AllDigits(s) == s # <<>> /\ \A k \in 1..Len(s) : IsDigit(s[k])

\* a JSON integer part: digits without a leading zero
JsonIntPart(s) == AllDigits(s) /\ (Len(s) = 1 \/ s[1] # "0")

\* the fraction digits as repr(float) prints them: trailing zeros dropped
RECURSIVE DropZeros(_)
DropZeros(s) ==
    IF Len(s) > 1 /\ s[Len(s)] = "0" THEN DropZeros(SubSeq(s, 1, Len(s) - 1)) ELSE s

\* [ok, t, s]: ok = no JSONDecodeError; t the value's type; s its text
\* (the string's contents, or str(data) for the other types)
JsonLoads(s) ==
    LET dot == FirstIndex(s, ".")
    IN  IF Len(s) >= 2 /\ s[1] = "\"" /\ s[Len(s)] = "\""
           /\ \A k \in 2..(Len(s) - 1) : s[k] # "\""
        THEN [ok |-> TRUE, t |-> "str", s |-> SubSeq(s, 2, Len(s) - 1)]
        ELSE IF s = << "n", "u", "l", "l" >>
        THEN [ok |-> TRUE, t |-> "null", s |-> << "N", "o", "n", "e" >>]
        ELSE IF s = << "{", "}" >>
        THEN [ok |-> TRUE, t |-> "object", s |-> s]
        ELSE IF JsonIntPart(s)
        THEN [ok |-> TRUE, t |-> "int", s |-> s]
        ELSE IF dot > 0 /\ JsonIntPart(SubSeq(s, 1, dot - 1))
                /\ AllDigits(SubSeq(s, dot + 1, Len(s)))
        THEN [ok |-> TRUE, t |-> "float",
              s |-> SubSeq(s, 1, dot) \o DropZeros(SubSeq(s, dot + 1, Len(s)))]
        ELSE [ok |-> FALSE, t |-> "error", s |-> <<>>]

\* get_latest_version that gives up on output that is no JSON
get_latest_version_strict(r) ==
    IF r.rc = 0 /\ r.out # <<>>
    THEN LET data == JsonLoads(r.out)
         IN  IF data.ok
             THEN IF data.t = "str" THEN Strip(data.s) ELSE data.s
             ELSE None
    ELSE None

\* get_latest_version(pkg), given what run() returned
get_latest_version(r) ==
    IF r.rc = 0 /\ r.out # <<>>
    THEN LET data == JsonLoads(r.out)
         IN  IF data.ok
             THEN IF data.t = "str" THEN Strip(data.s) ELSE data.s
             ELSE StripQuotes(Strip(r.out))
    ELSE None

(***************************************************************************)
(* The answer of `npm ls -g --depth=0 --json`, held in parsed form: a doc   *)
(* is empty output, text that is no JSON, or a JSON value.                 *)
(***************************************************************************)
\* a dict without entries
EmptyMap == [n \in {} |-> <<>>]

\* JSON values: t is the type, s a string's contents, fields an object's entries
JNull == [t |-> "null", s |-> <<>>, fields |-> EmptyMap]

JList == [t |-> "list", s |-> <<>>, fields |-> EmptyMap]

JNum == [t |-> "number", s |-> <<>>, fields |-> EmptyMap]

JStr(x) == [t |-> "str", s |-> x, fields |-> EmptyMap]

JObj(f) == [t |-> "object", s |-> <<>>, fields |-> f]

\* the package names a listing can hold: every candidate of every target
ListedNames ==
    { PACKAGES[k].candidates[c] :
        k \in 1..Len(PACKAGES), c \in 1..2 }

InstalledVersions == { V100, V101 }

\* what a listing can hold under a package name
InfoValues ==
    { JNull, JObj([f \in {"version"} |-> JNum]), JObj([f \in {"path"} |-> JStr(V100)]) }
    \cup { JObj([f \in {"version"} |-> JStr(v)]) : v \in InstalledVersions }

\* the values a listing can hold under "dependencies"
DepsValues ==
    { JNull, JList, JStr(V100) }
    \cup { JObj(f) : f \in UNION { [S -> InfoValues] :
                         S \in { T \in SUBSET ListedNames : Cardinality(T) <= MaxDeps } } }

ListDocs ==
    { [kind |-> "empty", val |-> JNull], [kind |-> "text", val |-> JNull],
      [kind |-> "json", val |-> JNull], [kind |-> "json", val |-> JList],
      [kind |-> "json", val |-> JStr(V100)],
      [kind |-> "json", val |-> JObj([f \in {"name"} |-> JStr(V100)])] }
    \cup { [kind |-> "json", val |-> JObj([f \in {"dependencies"} |-> d])] : d \in DepsValues }

\* a child process outcome of the listing command
ListOutcomes ==
    [started : {TRUE}, rc : {0, 1}, stdout : ListDocs, stderr : {<<>>, ErrText \o << " " >>}]
    \cup [started : {FALSE}, rc : {0}, stdout : {[kind |-> "empty", val |-> JNull]},
          stderr : {<<>>}]

\* run(cmd) for the listing command: out is the doc the output parses to
run_ls(o) ==
    IF o.started
    THEN [rc |-> o.rc, out |-> o.stdout, err |-> Strip(o.stderr)]
    ELSE [rc |-> RcCommandNotFound, out |-> [kind |-> "empty", val |-> JNull],
          err |-> ErrText]

\* the {name: version} dict built from a "dependencies" dict
VersionsOf(deps) ==
    LET ok(n) == /\ deps.fields[n].t = "object"
                 /\ "version" \in DOMAIN deps.fields[n].fields
                 /\ deps.fields[n].fields["version"].t = "str"
    IN  [n \in { m \in DOMAIN deps.fields : ok(m) } |-> deps.fields[n].fields["version"].s]

\* get_installed_global_map(), given what run() returned: raised = an
\* exception left the function (deps.items() on a value that is no dict)
get_installed_global_map(r) ==
    IF r.rc # 0 /\ r.err # <<>>
    THEN [raised |-> FALSE, warned |-> TRUE, map |-> EmptyMap]
    ELSE IF r.out.kind = "text"
    THEN [raised |-> FALSE, warned |-> TRUE, map |-> EmptyMap]
    ELSE LET data == IF r.out.kind = "empty" THEN JObj(EmptyMap) ELSE r.out.val
             deps == IF data.t = "object" /\ "dependencies" \in DOMAIN data.fields
                     THEN data.fields["dependencies"]
                     ELSE JObj(EmptyMap)
         IN  IF deps.t # "object"
             THEN [raised |-> TRUE, warned |-> FALSE, map |-> EmptyMap]
             ELSE [raised |-> FALSE, warned |-> FALSE, map |-> VersionsOf(deps)]

(***************************************************************************)
(* State.                                                                  *)
(***************************************************************************)
VARIABLES
    whichNpm,       \* shutil.which("npm") finds an executable
    whichNpmCmd,    \* shutil.which("npm.cmd") finds an executable
    pc,             \* where the run is
    pending,        \* <<status>> of the exit under way (SystemExit, traceback,
                    \* or the normal end of the script), <<>> when none is
    exitCode,       \* <<status>> once the process has exited
    local,          \* update_npm_if_needed: local
    latest,         \* update_npm_if_needed: latest
    installed_map,  \* main: installed_map
    i,              \* main: number of the target of the for loop
    j,              \* update_target: number of the candidate of the second scan
    locals,         \* update_target's locals, for the target of the loop
    processed,      \* the targets update_target has returned for, in order
    cmds,           \* the kinds of external command run so far
    printed,        \* the status lines printed so far
    pauses,         \* how many times pause_end() has shown its prompt
    afterPause,     \* something was run or printed after a prompt of pause_end()
    interrupted,    \* a KeyboardInterrupt was raised
    raised,         \* an exception other than KeyboardInterrupt left main()
    installFailed,  \* an install command exited non-zero
    fn_pc,          \* function-level check: "call" or "returned"
    arg,            \* function-level check: the input
    ret             \* function-level check: the result

mainVars ==
    << whichNpm, whichNpmCmd, pc, pending, exitCode, local, latest, installed_map,
       i, j, locals, processed, cmds, printed, pauses, afterPause, interrupted,
       raised, installFailed >>

fnVars == << fn_pc, arg, ret >>

vars == << mainVars, fnVars >>

NTargets == Len(PACKAGES)

\* update_target's locals before it has run; report is what the two
\* "Current ... version" / "Latest ... version" lines show, installs the
\* packages install_or_update was called for, outcome the line it printed
\* after the command, rereads the listings re-read
FreshLocals ==
    [installed_name |-> NoneName, installed_ver |-> None, lookups |-> <<>>,
     chosen_registry_name |-> NoneName, latest_ver |-> None,
     decision |-> "pending", report |-> <<>>, installs |-> <<>>, outcome |-> "",
     rereads |-> 0]

\* the state of a run that has not started, but for the search path
MainStart ==
    /\ pc = "main"
    /\ pending = <<>>
    /\ exitCode = <<>>
    /\ local = None
    /\ latest = None
    /\ installed_map = EmptyMap
    /\ i = 0
    /\ j = 1
    /\ locals = FreshLocals
    /\ processed = <<>>
    /\ cmds = {}
    /\ printed = {}
    /\ pauses = 0
    /\ afterPause = FALSE
    /\ interrupted = FALSE
    /\ raised = FALSE
    /\ installFailed = FALSE

MainInit ==
    /\ whichNpm \in BOOLEAN
    /\ whichNpmCmd \in BOOLEAN
    /\ MainStart

FnIdle == fn_pc = "idle" /\ arg = <<>> /\ ret = <<>>

Init == MainInit /\ FnIdle

(***************************************************************************)
(* Console and commands.                                                   *)
(***************************************************************************)
\* print(line): of the lines, the model keeps those of the top level
Prints(lines) ==
    /\ printed' = printed \cup lines
    /\ afterPause' = (afterPause \/ pauses > 0)

\* run([npm, ...]) of the given kinds was called
Runs(kinds) ==
    /\ cmds' = cmds \cup kinds
    /\ afterPause' = (afterPause \/ pauses > 0)

\* pause_end(): the prompt is shown when PAUSE_AT_END is set
pause_end == pauses' = IF PAUSE_AT_END THEN pauses + 1 ELSE pauses

\* main() is left, by return or by an exception: its frame and those of the
\* functions it called are gone
Unwound ==
    /\ local' = None
    /\ latest' = None
    /\ installed_map' = EmptyMap
    /\ i' = 0
    /\ j' = 1
    /\ locals' = FreshLocals

(***************************************************************************)
(* Top level: ensure_npm, the try/except/finally of __main__.              *)
(***************************************************************************)
\* ensure_npm that reports a missing npm and goes on
ensure_npm_noexit ==
    /\ pc = "main"
    /\ Prints(IF ~whichNpm /\ ~whichNpmCmd THEN {"npm not found"} ELSE {})
    /\ pc' = IF AUTO_UPDATE_NPM THEN "update_npm_version" ELSE "main_list"
    /\ UNCHANGED << whichNpm, whichNpmCmd, pending, exitCode, local, latest,
                    installed_map, i, j, locals, processed, cmds, pauses, interrupted,
                    raised, installFailed, fnVars >>

\* main() up to the end of ensure_npm(): with npm missing, the guidance and
\* the prompt of pause_end(); else the banner
ensure_npm ==
    /\ pc = "main"
    /\ IF ~whichNpm /\ ~whichNpmCmd
       THEN /\ Prints({"npm not found"})
            /\ pause_end
            /\ IF PAUSE_AT_END
               THEN pc' = "ensure_npm_pause" /\ pending' = pending
               ELSE pc' = "finally" /\ pending' = << ExitNpmMissing >>
       ELSE /\ Prints({})
            /\ pc' = IF AUTO_UPDATE_NPM THEN "update_npm_version" ELSE "main_list"
            /\ UNCHANGED << pending, pauses >>
    /\ UNCHANGED << whichNpm, whichNpmCmd, exitCode, local, latest, installed_map,
                    i, j, locals, processed, cmds, interrupted, raised, installFailed,
                    fnVars >>

\* ensure_npm: input() of pause_end() returns or raises EOFError; sys.exit(2)
ensure_npm_exit ==
    /\ pc = "ensure_npm_pause"
    /\ pending' = << ExitNpmMissing >>
    /\ pc' = "finally"
    /\ UNCHANGED << whichNpm, whichNpmCmd, exitCode, local, latest, installed_map,
                    i, j, locals, processed, cmds, printed, pauses, afterPause,
                    interrupted, raised, installFailed, fnVars >>

\* the places of the run inside the try block of __main__
TryPcs ==
    { "main", "ensure_npm_pause", "update_npm_version", "update_npm_view",
      "update_npm_install", "update_npm_reread", "main_list", "main_loop",
      "update_target_scan", "update_target_install", "update_target_reread" }

\* the user interrupts main(): KeyboardInterrupt reaches the except clause
KeyboardInterrupt ==
    /\ pc \in TryPcs
    /\ pc' = "except"
    /\ interrupted' = TRUE
    /\ Unwound
    /\ UNCHANGED << whichNpm, whichNpmCmd, pending, exitCode, processed, cmds,
                    printed, pauses, afterPause, raised, installFailed, fnVars >>

\* except KeyboardInterrupt: print, sys.exit(130)
except_KeyboardInterrupt ==
    /\ pc = "except"
    /\ Prints({"Aborted by user."})
    /\ pending' = << ExitInterrupted >>
    /\ pc' = "finally"
    /\ UNCHANGED << whichNpm, whichNpmCmd, exitCode, local, latest, installed_map,
                    i, j, locals, processed, cmds, pauses, interrupted, raised,
                    installFailed, fnVars >>

\* finally: pause_end() shows its prompt
finally_pause_end ==
    /\ pc = "finally"
    /\ pause_end
    /\ IF PAUSE_AT_END
       THEN pc' = "finally_pause" /\ exitCode' = exitCode
       ELSE pc' = "exited" /\ exitCode' = pending
    /\ UNCHANGED << whichNpm, whichNpmCmd, pending, local, latest, installed_map,
                    i, j, locals, processed, cmds, printed, afterPause, interrupted,
                    raised, installFailed, fnVars >>

\* finally: input() returns or raises EOFError; the exit under way completes
finally_exit ==
    /\ pc = "finally_pause"
    /\ exitCode' = pending
    /\ pc' = "exited"
    /\ UNCHANGED << whichNpm, whichNpmCmd, pending, local, latest, installed_map,
                    i, j, locals, processed, cmds, printed, pauses, afterPause,
                    interrupted, raised, installFailed, fnVars >>

\* the exit status of an interpreter whose script ends by an unhandled
\* KeyboardInterrupt: 1 before Python 3.8; since then death by SIGINT
\* (seen as 130) on POSIX and STATUS_CONTROL_C_EXIT (0xC000013A, as a signed
\* 32-bit number) on Windows
UnhandledInterruptStatus == { 1, 130, -1073741510 }

\* finally: the user interrupts input() of pause_end(); no except clause
\* covers the finally block, so the interpreter prints a traceback and ends
finally_KeyboardInterrupt ==
    /\ pc = "finally_pause"
    /\ interrupted' = TRUE
    /\ Prints({"Traceback"})
    /\ \E st \in UnhandledInterruptStatus : exitCode' = << st >>
    /\ pc' = "exited"
    /\ UNCHANGED << whichNpm, whichNpmCmd, pending, local, latest, installed_map,
                    i, j, locals, processed, cmds, pauses, raised, installFailed,
                    fnVars >>

(***************************************************************************)
(* install_or_update, update_npm_if_needed.                                *)
(***************************************************************************)
\* what `npm install -g <pkg>` can write
InstallStdouts == { <<>>, << "x" >> }

\* install_or_update(pkg), given what run() returned: success, and the line
\* printed after the command
install_or_update(r) ==
    IF r.rc = 0
    THEN [ok |-> TRUE, line |-> "Done."]
    ELSE [ok |-> FALSE, line |-> "Update failed:"]

\* update_npm_if_needed: run([npm, "-v"])
update_npm_version ==
    /\ pc = "update_npm_version"
    /\ \E o \in Outcomes(VersionStdouts) :
         LET r == run(o)
         IN  local' = IF r.rc = 0 THEN Strip(r.out) ELSE None
    /\ Runs({"-v"})
    /\ pc' = "update_npm_view"
    /\ UNCHANGED << whichNpm, whichNpmCmd, pending, exitCode, latest, installed_map,
                    i, j, locals, processed, printed, pauses, interrupted, raised,
                    installFailed, fnVars >>

\* update_npm_if_needed: get_latest_version("npm"), the report, is_outdated;
\* local and latest end with the function
update_npm_view ==
    /\ pc = "update_npm_view"
    /\ \E o \in Outcomes(ViewStdouts) :
         LET v == get_latest_version(run(o))
         IN  IF is_outdated(local, v)
             THEN /\ pc' = "update_npm_install"
                  /\ latest' = v
                  /\ local' = local
             ELSE /\ pc' = "main_list"
                  /\ latest' = None
                  /\ local' = None
    /\ Runs({"view"})
    /\ UNCHANGED << whichNpm, whichNpmCmd, pending, exitCode, installed_map,
                    i, j, locals, processed, printed, pauses, interrupted, raised,
                    installFailed, fnVars >>

\* update_npm_if_needed: install_or_update("npm@latest")
update_npm_install ==
    /\ pc = "update_npm_install"
    /\ \E o \in Outcomes(InstallStdouts) :
         LET done == install_or_update(run(o))
         IN  /\ pc' = IF done.ok THEN "update_npm_reread" ELSE "main_list"
             /\ installFailed' = (installFailed \/ ~done.ok)
    /\ Runs({"install"})
    /\ local' = None
    /\ latest' = None
    /\ UNCHANGED << whichNpm, whichNpmCmd, pending, exitCode, installed_map, i, j,
                    locals, processed, printed, pauses, interrupted, raised, fnVars >>

\* update_npm_if_needed: run([npm, "-v"]) again, to print the new version
update_npm_reread ==
    /\ pc = "update_npm_reread"
    /\ \E o \in Outcomes(VersionStdouts) : run(o).rc \in {0, 1, RcCommandNotFound}
    /\ Runs({"-v"})
    /\ pc' = "main_list"
    /\ UNCHANGED << whichNpm, whichNpmCmd, pending, exitCode, local, latest,
                    installed_map, i, j, locals, processed, printed, pauses,
                    interrupted, raised, installFailed, fnVars >>

(***************************************************************************)
(* main's loop and update_target.                                          *)
(***************************************************************************)
\* the listings the run is checked on: no output, text that is no JSON, a
\* "dependencies" entry that is no dict, and listings of installed versions
MainListDocs ==
    { [kind |-> "empty", val |-> JNull], [kind |-> "text", val |-> JNull],
      [kind |-> "json", val |-> JObj([f \in {"dependencies"} |-> JNull])] }
    \cup { [kind |-> "json", val |-> JObj([f \in {"dependencies"} |-> JObj(m)])] :
             m \in UNION { [S -> { JObj([f \in {"version"} |-> JStr(v)]) :
                                     v \in InstalledVersions }] :
                           S \in { T \in SUBSET ListedNames : Cardinality(T) <= MaxDeps } } }

MainListOutcomes ==
    { o \in ListOutcomes : o.stdout \in MainListDocs }

\* update_target, first scan: the first candidate that installed_map holds
FirstInstalled(candidates, map) ==
    LET hits == { c \in 1..Len(candidates) : candidates[c] \in DOMAIN map }
    IN  IF hits = {} THEN 0
        ELSE CHOOSE c \in hits : \A d \in hits : c <= d

\* update_target's locals after the first scan
AfterFirstScan(candidates, map) ==
    LET c == FirstInstalled(candidates, map)
    IN  IF c = 0 THEN FreshLocals
        ELSE [FreshLocals EXCEPT !.installed_name = candidates[c],
                                 !.installed_ver = map[candidates[c]]]

\* an exception other than KeyboardInterrupt leaves main(): the finally
\* block runs, then the interpreter prints the traceback and exits with 1
Raise ==
    /\ raised' = TRUE
    /\ pending' = << 1 >>
    /\ pc' = "finally"
    /\ Unwound

\* main: installed_map = get_installed_global_map()
main_list ==
    /\ pc = "main_list"
    /\ \E o \in MainListOutcomes :
         LET g == get_installed_global_map(run_ls(o))
         IN  IF g.raised
             THEN Raise
             ELSE /\ installed_map' = g.map
                  /\ pc' = "main_loop"
                  /\ UNCHANGED << pending, raised, local, latest, i, j, locals >>
    /\ Runs({"ls"})
    /\ UNCHANGED << whichNpm, whichNpmCmd, exitCode, processed, printed, pauses,
                    interrupted, installFailed, fnVars >>

\* main: the for loop takes the next target and update_target runs its first
\* scan, or the loop is over and main() prints its last lines
main_loop ==
    /\ pc = "main_loop"
    /\ IF i < NTargets
       THEN /\ i' = i + 1
            /\ j' = 1
            /\ locals' = AfterFirstScan(PACKAGES[i + 1].candidates, installed_map)
            /\ pc' = "update_target_scan"
            /\ UNCHANGED << pending, local, latest, installed_map >>
       ELSE /\ pc' = "finally"
            /\ pending' = << 0 >>
            /\ Unwound
    /\ Prints({})
    /\ UNCHANGED << whichNpm, whichNpmCmd, exitCode, processed, cmds, pauses,
                    interrupted, raised, installFailed, fnVars >>

\* `if v:` of the second scan
Truthy(v) == v # None /\ v # <<>>

\* the second scan's hit that takes the name found installed
Resolved_installed(rec, cand, v) ==
    [rec EXCEPT !.chosen_registry_name =
                    IF rec.installed_name # NoneName THEN rec.installed_name ELSE cand,
                !.latest_ver = v]

\* the second scan's hit: chosen_registry_name = cand; latest_ver = v
Resolved(rec, cand, v) ==
    [rec EXCEPT !.chosen_registry_name = cand, !.latest_ver = v]

\* the two report lines: the versions, or "Not installed" / "Unknown"
Reported(rec) ==
    [rec EXCEPT !.report =
        << IF Truthy(rec.installed_ver) THEN rec.installed_ver ELSE None,
           IF Truthy(rec.latest_ver) THEN rec.latest_ver ELSE None >>]

\* update_target: one get_latest_version(cand) of the second scan and, once
\* the scan has ended, the report and the decision
update_target_scan ==
    /\ pc = "update_target_scan"
    /\ \E o \in Outcomes(ViewStdouts) :
         LET cands == PACKAGES[i].candidates
             cand  == cands[j]
             v     == get_latest_version(run(o))
             seen  == [locals EXCEPT !.lookups = Append(@, v)]
             hit   == Reported(Resolved(seen, cand, v))
         IN  IF Truthy(v)
             THEN IF is_outdated(hit.installed_ver, hit.latest_ver)
                  THEN /\ locals' = [hit EXCEPT !.decision = "install"]
                       /\ pc' = "update_target_install"
                       /\ UNCHANGED << j, processed >>
                  ELSE /\ locals' = [hit EXCEPT !.decision = "current"]
                       /\ pc' = "main_loop"
                       /\ processed' = Append(processed, i)
                       /\ j' = j
             ELSE IF j < Len(cands)
             THEN /\ j' = j + 1
                  /\ locals' = seen
                  /\ UNCHANGED << pc, processed >>
             ELSE /\ locals' = [Reported(seen) EXCEPT !.decision = "unresolved"]
                  /\ pc' = "main_loop"
                  /\ processed' = Append(processed, i)
                  /\ j' = j
    /\ Runs({"view"})
    /\ UNCHANGED << whichNpm, whichNpmCmd, pending, exitCode, local, latest,
                    installed_map, i, printed, pauses, interrupted, raised,
                    installFailed, fnVars >>

\* update_target: install_or_update(chosen_registry_name)
update_target_install ==
    /\ pc = "update_target_install"
    /\ \E o \in Outcomes(InstallStdouts) :
         LET done == install_or_update(run(o))
         IN  /\ installFailed' = (installFailed \/ ~done.ok)
             /\ locals' = [locals EXCEPT
                              !.installs = Append(@, locals.chosen_registry_name),
                              !.outcome = done.line]
             /\ IF done.ok
                THEN pc' = "update_target_reread" /\ processed' = processed
                ELSE pc' = "main_loop" /\ processed' = Append(processed, i)
    /\ Runs({"install"})
    /\ UNCHANGED << whichNpm, whichNpmCmd, pending, exitCode, local, latest,
                    installed_map, i, j, printed, pauses, interrupted, raised,
                    fnVars >>

\* update_target: new_map = get_installed_global_map(), printed and dropped
update_target_reread ==
    /\ pc = "update_target_reread"
    /\ \E o \in MainListOutcomes :
         LET g == get_installed_global_map(run_ls(o))
         IN  IF g.raised
             THEN /\ Raise
                  /\ processed' = processed
             ELSE /\ locals' = [locals EXCEPT !.rereads = @ + 1]
                  /\ pc' = "main_loop"
                  /\ processed' = Append(processed, i)
                  /\ UNCHANGED << pending, raised, local, latest, installed_map, i, j >>
    /\ Runs({"ls"})
    /\ UNCHANGED << whichNpm, whichNpmCmd, exitCode, printed, pauses, interrupted,
                    installFailed, fnVars >>

MainNext ==
    \/ ensure_npm
    \/ ensure_npm_exit
    \/ KeyboardInterrupt
    \/ except_KeyboardInterrupt
    \/ finally_pause_end
    \/ finally_exit
    \/ finally_KeyboardInterrupt
    \/ update_npm_version
    \/ update_npm_view
    \/ update_npm_install
    \/ update_npm_reread
    \/ main_list
    \/ main_loop
    \/ update_target_scan
    \/ update_target_install
    \/ update_target_reread

Next == MainNext

Spec == Init /\ [][Next]_vars

(***************************************************************************)
(* Function-level specifications: the input is drawn by the initial state, *)
(* the one action calls the function.                                      *)
(***************************************************************************)
NoRun == whichNpm = TRUE /\ whichNpmCmd = TRUE /\ MainStart

\* the dot-separated components a version core is drawn from
Components == { << "1" >>, << "1", "0" >>, << "2" >>, << "x" >>, <<>> }

\* the characters a pre-release tag is drawn from
TagChars == { "0", "b", "z", "~", "-", "." }

\* parts joined by "."
RECURSIVE Join(_)
Join(parts) ==
    IF Len(parts) = 1 THEN parts[1]
    ELSE parts[1] \o << "." >> \o Join(Tail(parts))

\* the version text of an input: the core, then "-" and the tag if dash
VersionText(a) == Join(a.parts) \o (IF a.dash THEN << "-" >> \o a.tag ELSE <<>>)

ParseInputs ==
    [parts : UNION { [1..n -> Components] : n \in 1..MaxParts },
     dash  : {TRUE},
     tag   : UNION { [1..n -> TagChars] : n \in 0..MaxTagLen }]
    \cup [parts : UNION { [1..n -> Components] : n \in 1..MaxParts },
          dash  : {FALSE},
          tag   : { <<>> }]

InitParse == NoRun /\ fn_pc = "call" /\ arg \in ParseInputs /\ ret = <<>>

\* parse_semver on the input and on its core alone
CallParse ==
    /\ fn_pc = "call"
    /\ fn_pc' = "returned"
    /\ ret' = [parsed |-> parse_semver(VersionText(arg)),
               release |-> parse_semver(Join(arg.parts))]
    /\ UNCHANGED << arg, mainVars >>

SpecParse == InitParse /\ [][CallParse]_vars

InitList == NoRun /\ fn_pc = "call" /\ arg \in ListOutcomes /\ ret = <<>>

\* get_installed_global_map() on what the listing command gave
CallList ==
    /\ fn_pc = "call"
    /\ fn_pc' = "returned"
    /\ ret' = get_installed_global_map(run_ls(arg))
    /\ UNCHANGED << arg, mainVars >>

SpecList == InitList /\ [][CallList]_vars

InitLatest ==
    /\ NoRun
    /\ fn_pc = "call"
    /\ arg \in [pkg : ListedNames \cup {"npm"}, o : Outcomes(ViewStdouts)]
    /\ ret = <<>>

\* get_latest_version(pkg) on what the view command gave
CallLatest ==
    /\ fn_pc = "call"
    /\ fn_pc' = "returned"
    /\ ret' = [r |-> run(arg.o), v |-> get_latest_version(run(arg.o))]
    /\ UNCHANGED << arg, mainVars >>

SpecLatest == InitLatest /\ [][CallLatest]_vars

(***************************************************************************)
(* Properties.                                                             *)
(***************************************************************************)
\* (int, int, int, str) tuples in lexicographic order, first difference decides
LexBefore(a, b) ==
    \E k \in 1..4 :
        /\ \A m \in 1..(k - 1) : a[m] = b[m]
        /\ IF k < 4 THEN a[k] < b[k] ELSE StrLess(a[4], b[4])

\* outdated as the specification words it
OutdatedBySpec(inst, lat) ==
    /\ lat # None
    /\ inst = None \/ LexBefore(parse_semver(inst), parse_semver(lat))

Decided == locals.decision # "pending"

\* C1: update_target issues the install command exactly when a registry name
\* was resolved and the installed version is outdated against the latest
\* (never if latest is unresolved, always if resolved and nothing is
\* installed, else iff parse(installed) < parse(latest)); with installed equal
\* to latest it reports "already up to date" and issues no install.
C1_InstallIffOutdated ==
    /\ Decided =>
         /\ (locals.decision = "install") <=>
               /\ locals.chosen_registry_name # NoneName
               /\ OutdatedBySpec(locals.installed_ver, locals.latest_ver)
         /\ (locals.decision = "current") <=>
               /\ locals.chosen_registry_name # NoneName
               /\ ~OutdatedBySpec(locals.installed_ver, locals.latest_ver)
         /\ (locals.installed_ver # None /\ locals.installed_ver = locals.latest_ver)
               => locals.decision = "current"
    /\ (pc = "update_target_install") <=> (locals.decision = "install" /\ locals.installs = <<>>)
    /\ locals.installs # <<>> =>
         /\ locals.decision = "install"
         /\ locals.installs = << locals.chosen_registry_name >>
    /\ locals.decision \in {"current", "unresolved", "pending"} => locals.installs = <<>>

\* C1's case: installed equals latest, up to date, no install issued
C1_Witness ==
    /\ pc = "main_loop"
    /\ locals.decision = "current"
    /\ locals.installed_ver = V100
    /\ locals.latest_ver = V100
    /\ locals.installs = <<>>

\* a lookup that returned a value (a version to show, not "Unknown")
HasValue(v) == v # None /\ v # <<>>

\* C2: the registry name used for the install is the first alias, in
\* candidate order, whose latest-version lookup returned a value; it is one of
\* the target's candidates and does not depend on the alias found installed;
\* the installed version and the latest version found are both reported.
C2_FirstResolvingAlias ==
    Decided =>
      LET cands == PACKAGES[i].candidates
          hits  == { k \in 1..Len(locals.lookups) : HasValue(locals.lookups[k]) }
          first == CHOOSE k \in hits : \A m \in hits : k <= m
      IN  /\ Len(locals.lookups) <= Len(cands)
          /\ IF hits = {}
             THEN /\ locals.chosen_registry_name = NoneName
                  /\ Len(locals.lookups) = Len(cands)
                  /\ locals.installs = <<>>
             ELSE /\ locals.chosen_registry_name = cands[first]
                  /\ locals.latest_ver = locals.lookups[first]
                  /\ first = Len(locals.lookups)
                  /\ locals.installs \in { <<>>, << cands[first] >> }
          /\ locals.report =
               << IF locals.installed_name = NoneName THEN None
                  ELSE installed_map[locals.installed_name],
                  IF hits = {} THEN None ELSE locals.lookups[first] >>

\* C2's case: only the second alias installed, the first one resolves
C2_Witness ==
    /\ i = 1
    /\ pc = "update_target_reread"
    /\ DOMAIN installed_map = { "gemini-cli" }
    /\ locals.installed_name = "gemini-cli"
    /\ locals.chosen_registry_name = "@google/gemini-cli"
    /\ locals.installs = << "@google/gemini-cli" >>
    /\ locals.report = << V100, V101 >>

NpmMissing == ~whichNpm /\ ~whichNpmCmd

\* C3: with no npm executable on the search path the run prints the guidance,
\* runs no external command at all and, left to end, exits with status 2.
C3_NpmMissingExits2 ==
    NpmMissing =>
      /\ cmds = {}
      /\ installed_map = EmptyMap /\ locals = FreshLocals /\ processed = <<>>
      /\ (pc # "main" /\ ~interrupted) => "npm not found" \in printed
      /\ pc \in { "main", "ensure_npm_pause", "except", "finally", "finally_pause",
                  "exited" }
      /\ (pc = "exited" /\ ~interrupted) => exitCode = << 2 >>

\* C3's case: npm missing and the process has exited with 2
C3_Witness ==
    /\ NpmMissing
    /\ pc = "exited"
    /\ exitCode = << 2 >>
    /\ "npm not found" \in printed

\* C4: after an install command that exited non-zero, the failed target's
\* listing is not re-read and installed_map stays as it is, every configured
\* target is still processed in order, and the run ends normally (status 0).
C4_FailedInstallContinues ==
    /\ locals.outcome = "Update failed:" => locals.rereads = 0
    /\ (installFailed /\ pc = "exited" /\ ~interrupted) =>
          /\ processed = [k \in 1..NTargets |-> k]
          /\ exitCode = << 0 >>

\* the first three components as the claim reads them: each missing or
\* non-numeric one is zero, each numeric one keeps its value
EachComponent(parts, k) ==
    IF k <= Len(parts) /\ IntOk(parts[k]) THEN IntOf(parts[k]) ELSE 0

\* a core whose first three components, as far as present, are all numeric
NumericCore(parts) ==
    \A k \in 1..Len(parts) : k <= 3 => IntOk(parts[k])

\* C5 as stated: for every major.minor.patch and every non-empty pre-release
\* tag t, parse("M.m.p-t") < parse("M.m.p").
C5_AnyTagBelowRelease ==
    (fn_pc = "returned" /\ Len(arg.parts) = 3 /\ NumericCore(arg.parts)
       /\ arg.dash /\ arg.tag # <<>>)
      => LexBefore(ret.parsed, ret.release)

\* the characters of TagChars that semver allows in a pre-release tag
SemverTagChars == { "0", "b", "z", "-", "." }

\* C5, amended: for every numeric major.minor.patch and every non-empty
\* pre-release tag t made of the characters semver allows (digits, letters,
\* "-" and "."), parse("M.m.p-t") < parse("M.m.p").
C5_SemverTagBelowRelease ==
    (fn_pc = "returned" /\ Len(arg.parts) = 3 /\ NumericCore(arg.parts)
       /\ arg.dash /\ arg.tag # <<>>
       /\ \A k \in 1..Len(arg.tag) : arg.tag[k] \in SemverTagChars)
      => /\ LexBefore(ret.parsed, ret.release)
         /\ ret.parsed = << IntOf(arg.parts[1]), IntOf(arg.parts[2]),
                            IntOf(arg.parts[3]), arg.tag >>
         /\ ret.release[4] = << "~" >>

\* C5's case: 1.10.2-zz parsed, and below 1.10.2
C5_Witness ==
    /\ fn_pc = "returned"
    /\ arg.parts = << << "1" >>, << "1", "0" >>, << "2" >> >>
    /\ arg.dash
    /\ arg.tag = << "z", "z" >>
    /\ ret.parsed = << 1, 10, 2, << "z", "z" >> >>
    /\ ret.release = << 1, 10, 2, << "~" >> >>

\* C6 as stated: each of major, minor, patch that is missing or non-numeric
\* is zero while the numeric ones keep their values, and a malformed string
\* gets the high sentinel that sorts above every pre-release tag.
C6_EachComponentDefaults ==
    fn_pc = "returned" =>
      /\ \A k \in 1..3 : ret.parsed[k] = EachComponent(arg.parts, k)
      /\ ~NumericCore(arg.parts) =>
           \A t \in UNION { [1..n -> SemverTagChars] : n \in 1..MaxTagLen } :
               StrLess(t, ret.parsed[4])

\* C6, amended: when every present one of the first three components is
\* numeric, they keep their values and the missing ones are zero; when any of
\* them is non-numeric the whole string, numeric components and pre-release
\* tag included, collapses to (0, 0, 0, "z"), and "z" sorts below the
\* sentinel "~" of a release.
C6_MalformedCollapses ==
    fn_pc = "returned" =>
      IF NumericCore(arg.parts)
      THEN /\ \A k \in 1..3 : ret.parsed[k] = EachComponent(arg.parts, k)
           /\ ret.parsed[4] = IF arg.tag = <<>> THEN << "~" >> ELSE arg.tag
      ELSE /\ ret.parsed = << 0, 0, 0, << "z" >> >>
           /\ StrLess(ret.parsed[4], << "~" >>)

\* C6's case: 1.x-b, a numeric major beside a non-numeric minor
C6_Witness ==
    /\ fn_pc = "returned"
    /\ arg.parts = << << "1" >>, << "x" >> >>
    /\ arg.dash
    /\ arg.tag = << "b" >>
    /\ ret.parsed = << 0, 0, 0, << "z" >> >>

\* a listing whose "dependencies" entry, if any, is a dict
WellFormedListing(doc) ==
    /\ doc.kind = "json"
    /\ doc.val.t = "object"
    /\ "dependencies" \in DOMAIN doc.val.fields => doc.val.fields["dependencies"].t = "object"

\* C7: get_installed_global_map returns a map for every result of the listing
\* command; on a parse failure, a non-zero exit with error text, and a
\* malformed or non-object input it warns and returns the empty map; a listing
\* {name: {version: v}} gives {name: v}.
C7_ListNeverCrashes ==
    fn_pc = "returned" =>
      LET r == run_ls(arg)
      IN  /\ ~ret.raised
          /\ ((r.rc # 0 /\ r.err # <<>>) \/ r.out.kind = "text"
                \/ (r.out.kind = "json" /\ ~WellFormedListing(r.out)))
               => (ret.warned /\ ret.map = EmptyMap)
          /\ (r.rc = 0 /\ WellFormedListing(r.out)
                /\ "dependencies" \in DOMAIN r.out.val.fields) =>
               LET deps == r.out.val.fields["dependencies"].fields
               IN  (\A n \in DOMAIN deps :
                       deps[n].t = "object" /\ DOMAIN deps[n].fields = {"version"}
                         /\ deps[n].fields["version"].t = "str")
                     => ret.map = [n \in DOMAIN deps |-> deps[n].fields["version"].s]

\* text that reads as a version: a digit first, then digits, letters, "." and "-"
LooksLikeVersion(t) ==
    /\ t # <<>>
    /\ IsDigit(t[1])
    /\ \A k \in 1..Len(t) : t[k] \notin { " ", "\"", "{", "}", "~" }

\* output that is a quoted or a bare version string
VersionOutput(out) == LooksLikeVersion(Strip(StripQuotes(out)))

\* C8 as stated: the lookup returns None on any failure of the command, any
\* non-zero exit and any output that is no quoted or bare version string, and
\* a version string only when the command exits zero with such output.
C8_NoneUnlessVersionOutput ==
    fn_pc = "returned" =>
      /\ (ret.r.rc # 0 \/ ~VersionOutput(ret.r.out)) => ret.v = None
      /\ ret.v # None => (ret.r.rc = 0 /\ VersionOutput(ret.r.out))

\* C8, amended: the lookup returns None exactly when the command fails to
\* start, exits non-zero or writes nothing; otherwise it returns text: a
\* quoted string's contents, and any output that is no JSON with its
\* surrounding whitespace and quotes removed, version or not.
C8_NoneIffFailedOrEmpty ==
    fn_pc = "returned" =>
      /\ (ret.v = None) <=> (~arg.o.started \/ arg.o.rc # 0 \/ Strip(arg.o.stdout) = <<>>)
      /\ (arg.o.started /\ arg.o.rc = 0
            /\ arg.o.stdout = << "\"", "1", ".", "0", ".", "1", "\"", " " >>)
           => ret.v = V101
      /\ (arg.o.started /\ arg.o.rc = 0 /\ arg.o.stdout = << "b", "a", "d", " ", "x" >>)
           => ret.v = << "b", "a", "d", " ", "x" >>

\* C8's case: exit 0 and output that is no version, returned as text
C8_Witness ==
    /\ fn_pc = "returned"
    /\ arg.o.started
    /\ arg.o.rc = 0
    /\ arg.o.stdout = << "n", "u", "l", "l" >>
    /\ ret.v = << "N", "o", "n", "e" >>

\* C9: an interruption at any point of the run, the end-of-run pause
\* included, is caught, reported and ends the process with status 130; a run
\* that reaches its end without interruption, npm present, exits with 0.
C9_InterruptExits130 ==
    pc = "exited" =>
      /\ interrupted =>
           /\ exitCode = << 130 >>
           /\ "Aborted by user." \in printed
           /\ "Traceback" \notin printed
      /\ (~interrupted /\ ~NpmMissing /\ ~raised) => exitCode = << 0 >>

\* C10: on every path to the exit the pause prompt is shown at most once,
\* and nothing is run or printed after it.
C10_PauseOnceAtEnd ==
    /\ pauses <= 1
    /\ ~afterPause

====
